---------------------------- MODULE Spec2Model ----------------------------
(***************************************************************************)
(* The escrow program of sol-escrow-example: the Escrow record and its     *)
(* 105-byte layout (src/src/state.rs) and the InitEscrow transition        *)
(* (src/src/processor.rs).                                                 *)
(*                                                                         *)
(* The ledger holds one escrow storage account and one token account whose *)
(* authority the transition hands over.  One step of the model is one      *)
(* invocation of Processor::process, run to completion as the runtime runs *)
(* it; the accounts, signer flags, balances and payload of the invocation  *)
(* are chosen by the caller.  Effects of a failed invocation are kept: the *)
(* model shows what the processor itself does, before any enclosing        *)
(* transaction boundary discards anything.                                 *)
(***************************************************************************)
EXTENDS Integers, Sequences, FiniteSets, TLC

VARIABLES
    pc,         \* "idle": between invocations; "done": an invocation returned
    data,       \* the data bytes of the storage accounts, by account key
    authority,  \* the owning authority of the token accounts, by account key
    tx,         \* the invocation last run: accounts, payload, program id
    result,     \* what that invocation returned
    cpi,        \* the cross-program requests that invocation issued, in order
    succeeded,  \* history: the storage accounts an invocation returned Ok on
    prior,      \* the ledger and the history as they were when it began
    writers,    \* history: by storage account, the invocations that wrote it
    requested,  \* history: the <<program id, new authority>> of every request
    codec       \* a record or a buffer handed to the Pack implementation alone

vars == <<pc, data, authority, tx, result, cpi, succeeded, prior, writers,
          requested, codec>>

-----------------------------------------------------------------------------
(* Bytes, keys, u64 *)

Byte == 0..255

\* How many of the amounts of AmountList the callers use.
NumAmounts == 2

\* By how many bytes a buffer handed to the decoder may miss or exceed LEN.
MaxExcess == 1

\* Escrow::LEN
LEN == 105

\* A Pubkey is its 32 bytes.  Key(n) is the n-th key of the model, its bytes
\* all different from position to position.
Key(n) == [i \in 1..32 |-> (n * 8 + i) % 256]

Zeros(n) == [i \in 1..n |-> 0]

Alice == Key(1)
Bob == Key(2)
TokA == Key(3)
TokB == Key(4)
Esc1 == Key(5)
RentSysvarId == Key(6)
SplTokenId == Key(7)
SystemProgramId == Key(8)
EscrowProgramId == Key(9)
SecondProgramId == Key(10)
DefaultPubkey == Zeros(32)

\* A u64 is held as four 16-bit limbs, most significant first.
U64(l3, l2, l1, l0) == <<l3, l2, l1, l0>>

\* Mutant of ToLeBytes: the most significant byte comes first.
ToBeBytes(n) ==
    [i \in 1..8 |->
        LET limb == n[((i - 1) \div 2) + 1]
        IN  IF i % 2 = 1 THEN limb \div 256 ELSE limb % 256]

\* u64::to_le_bytes
ToLeBytes(n) ==
    [i \in 1..8 |->
        LET limb == n[4 - ((i - 1) \div 2)]
        IN  IF i % 2 = 1 THEN limb % 256 ELSE limb \div 256]

\* u64::from_le_bytes
FromLeBytes(b) ==
    [j \in 1..4 |-> b[2 * (4 - j) + 1] + 256 * b[2 * (4 - j) + 2]]

AmountList ==
    << U64(0, 0, 15, 16960),              \* 1_000_000
       U64(65535, 65535, 65535, 65535),   \* u64::MAX
       U64(0, 0, 0, 0),
       U64(258, 772, 1286, 1800) >>       \* 0x0102030405060708

Amounts == {AmountList[i] : i \in 1..NumAmounts}


-----------------------------------------------------------------------------
(* state.rs: the Escrow record and its Pack implementation *)

\* A fallible value: ok with val, or not ok with err ("Panic" for a Rust panic).
Ok(v) == [ok |-> TRUE, err |-> "", val |-> v]
Err(e, v) == [ok |-> FALSE, err |-> e, val |-> v]

Escrow(init, initializer, temp, receive, amount) ==
    [is_initialized |-> init,
     initializer_pubkey |-> initializer,
     temp_token_account_pubkey |-> temp,
     initializer_token_to_receive_account_pubkey |-> receive,
     expected_amount |-> amount]

\* The value carried by a failed decode: never read.
NoEscrow == Escrow(FALSE, DefaultPubkey, DefaultPubkey, DefaultPubkey, U64(0, 0, 0, 0))

\* Mutant of IsInitialized: the flag is never reported.
IsInitializedNever(escrow) == FALSE

\* impl IsInitialized for Escrow
IsInitialized(escrow) == escrow.is_initialized

\* array_refs![src, 1, 32, 32, 32, 8]: the five fields of the first LEN bytes.
ArrayRefs(src) ==
    [is_initialized |-> SubSeq(src, 1, 1),
     initializer_pubkey |-> SubSeq(src, 2, 33),
     temp_token_account_pubkey |-> SubSeq(src, 34, 65),
     initializer_token_to_receive_account_pubkey |-> SubSeq(src, 66, 97),
     expected_amount |-> SubSeq(src, 98, 105)]

\* Mutant of UnpackFlag: the arm for [1] yields false as well.
UnpackFlagOneAsFalse(b) ==
    IF b = <<0>> THEN Ok(FALSE)
    ELSE IF b = <<1>> THEN Ok(FALSE)
    ELSE Err("InvalidAccountData", FALSE)

\* Mutant of UnpackFlag: every byte but 0 reads as true.
UnpackFlagNonZero(b) ==
    IF b = <<0>> THEN Ok(FALSE) ELSE Ok(TRUE)

\* The match on the flag byte: [0] => false, [1] => true, _ => error.
UnpackFlag(b) ==
    IF b = <<0>> THEN Ok(FALSE)
    ELSE IF b = <<1>> THEN Ok(TRUE)
    ELSE Err("InvalidAccountData", FALSE)

\* Escrow::unpack_from_slice.  array_ref![src, 0, LEN] panics on a slice shorter
\* than LEN and reads the first LEN bytes of a longer one.
UnpackFromSlice(src) ==
    IF Len(src) < LEN THEN Err("Panic", NoEscrow)
    ELSE
        LET f == ArrayRefs(src)
            flag == UnpackFlag(f.is_initialized)
        IN  IF ~flag.ok THEN Err(flag.err, NoEscrow)
            ELSE Ok(Escrow(flag.val,
                           f.initializer_pubkey,
                           f.temp_token_account_pubkey,
                           f.initializer_token_to_receive_account_pubkey,
                           FromLeBytes(f.expected_amount)))

\* self.is_initialized as u8
BoolAsU8(b) == IF b THEN 1 ELSE 0

\* Mutant of PackIntoSlice: only the flag byte is stored, the fields are left
\* as dst had them.
PackIntoSliceFlagOnly(escrow, dst) ==
    IF Len(dst) < LEN THEN Err("Panic", dst)
    ELSE Ok(<<BoolAsU8(escrow.is_initialized)>> \o SubSeq(dst, 2, Len(dst)))

\* Escrow::pack_into_slice: the first LEN bytes of dst are overwritten, the rest
\* kept; array_mut_ref![dst, 0, LEN] panics on a slice shorter than LEN.
PackIntoSlice(escrow, dst) ==
    IF Len(dst) < LEN THEN Err("Panic", dst)
    ELSE Ok(<<BoolAsU8(escrow.is_initialized)>>
            \o escrow.initializer_pubkey
            \o escrow.temp_token_account_pubkey
            \o escrow.initializer_token_to_receive_account_pubkey
            \o ToLeBytes(escrow.expected_amount)
            \o SubSeq(dst, LEN + 1, Len(dst)))

\* Mutant of UnpackUnchecked: the length is not checked.
UnpackUncheckedAnyLength(input) == UnpackFromSlice(input)

\* Pack::unpack_unchecked, as called on the storage account's data: the length
\* is checked against LEN before unpack_from_slice runs.
UnpackUnchecked(input) ==
    IF Len(input) # LEN THEN Err("InvalidAccountData", NoEscrow)
    ELSE UnpackFromSlice(input)

\* Pack::pack, as called on the storage account's data.
Pack(escrow, dst) ==
    IF Len(dst) # LEN THEN Err("InvalidAccountData", dst)
    ELSE PackIntoSlice(escrow, dst)

-----------------------------------------------------------------------------
(* The accounts an invocation is handed, and what it calls outside itself *)

\* An AccountInfo as the runtime hands it over; its data is read from, and
\* written to, the ledger by key (two AccountInfos of one key share their data).
AccountInfo(key, is_signer, owner, lamports) ==
    [key |-> key, is_signer |-> is_signer, owner |-> owner, lamports |-> lamports]

NoAccount == AccountInfo(DefaultPubkey, FALSE, DefaultPubkey, 0)

\* try_borrow_data: the bytes of the account.  A token account's 165 bytes are
\* not modelled byte by byte (its authority is the variable authority); any
\* other account of the model holds no data.
AccountData(d, auth, key) ==
    IF key \in DOMAIN d THEN d[key]
    ELSE IF key \in DOMAIN auth THEN Zeros(165)
    ELSE <<>>

\* try_borrow_mut_data, written through
WriteData(d, key, bytes) ==
    IF key \in DOMAIN d THEN [d EXCEPT ![key] = bytes] ELSE d

\* next_account_info: the i-th account, or NotEnoughAccountKeys past the end.
NextAccountInfo(accounts, i) ==
    IF i <= Len(accounts) THEN Ok(accounts[i])
    ELSE Err("NotEnoughAccountKeys", NoAccount)

\* Rent::default(), the content of the rent sysvar account.
RentDefault == [lamports_per_byte_year |-> 3480, exemption_threshold |-> 2]

\* Rent::from_account_info: only the rent sysvar's own account decodes.
RentFromAccountInfo(account) ==
    IF account.key # RentSysvarId THEN Err("InvalidArgument", RentDefault)
    ELSE Ok(RentDefault)

\* Rent::minimum_balance: 128 bytes of storage overhead are charged as well.
MinimumBalance(rent, data_len) ==
    (128 + data_len) * rent.lamports_per_byte_year * rent.exemption_threshold

\* Rent::is_exempt
IsExempt(rent, lamports, data_len) == lamports >= MinimumBalance(rent, data_len)

\* Pubkey::find_program_address(&[seed], program_id).  The hash is stood for by
\* a function of the seed and the program id alone whose values are keys of no
\* account of the model.
EscrowSeed == <<101, 115, 99, 114, 111, 119>>   \* b"escrow"

FindProgramAddress(seed, program_id) ==
    [i \in 1..32 |-> (program_id[i] + seed[((i - 1) % Len(seed)) + 1]) % 256]

\* spl_token::instruction::set_authority(.., AuthorityType::AccountOwner, ..):
\* the request is built only for the token program's own id.
SetAuthority(token_program_id, owned, new_authority, owner) ==
    LET ix == [program_id |-> token_program_id,
               account |-> owned,
               new_authority |-> new_authority,
               authority_type |-> "AccountOwner",
               owner |-> owner]
    IN  IF token_program_id # SplTokenId THEN Err("IncorrectProgramId", ix)
        ELSE Ok(ix)

\* invoke(&ix, ..): the token program serves the request.  It refuses an account
\* that is not a token account of its own, may refuse for a reason of its own
\* (fault: the account is frozen), and refuses an owner that is not the
\* account's current authority.
Invoke(ix, account, auth, fault) ==
    IF account.owner # SplTokenId \/ ix.account \notin DOMAIN auth
        THEN Err("InvalidAccountData", auth)
    ELSE IF fault # "none" THEN Err(fault, auth)
    ELSE IF auth[ix.account] # ix.owner THEN Err("OwnerMismatch", auth)
    ELSE Ok([auth EXCEPT ![ix.account] = ix.new_authority])

-----------------------------------------------------------------------------
(* processor.rs *)

\* What an invocation leaves behind: its return value, the ledger, and the
\* cross-program requests it issued.
Outcome(res, d, auth, requests) ==
    [result |-> res, data |-> d, authority |-> auth, cpi |-> requests]

\* Mutant of SignerCheck: the signature is not looked at.
SignerCheckOmitted(initializer) == TRUE

\* if !initializer.is_signer
SignerCheck(initializer) == initializer.is_signer

\* Mutant of OwnerCheck: the owner is not looked at.
OwnerCheckOmitted(token_to_receive_account) == TRUE

\* if *token_to_receive_account.owner != spl_token::id()
OwnerCheck(token_to_receive_account) == token_to_receive_account.owner = SplTokenId

\* Mutant of RentCheck: exemption is asked for Escrow::LEN bytes, not for the
\* account's own size.
RentCheckForLen(rent, escrow_account, bytes) ==
    IsExempt(rent, escrow_account.lamports, LEN)

\* if !rent.is_exempt(escrow_account.lamports(), escrow_account.data_len())
RentCheck(rent, escrow_account, bytes) ==
    IsExempt(rent, escrow_account.lamports, Len(bytes))

\* Mutant of Populate: the custody and the receiving key change places.
PopulateSwapped(escrow_info, initializer, temp_token_account, token_to_receive_account, amount) ==
    [escrow_info EXCEPT
        !.is_initialized = TRUE,
        !.initializer_pubkey = initializer.key,
        !.temp_token_account_pubkey = token_to_receive_account.key,
        !.initializer_token_to_receive_account_pubkey = temp_token_account.key,
        !.expected_amount = amount]

\* The five assignments to escrow_info.
Populate(escrow_info, initializer, temp_token_account, token_to_receive_account, amount) ==
    [escrow_info EXCEPT
        !.is_initialized = TRUE,
        !.initializer_pubkey = initializer.key,
        !.temp_token_account_pubkey = temp_token_account.key,
        !.initializer_token_to_receive_account_pubkey = token_to_receive_account.key,
        !.expected_amount = amount]

\* Mutant of TransferOwnership: the initializer's key is among the seeds.
TransferOwnershipSeededByInitializer(accounts, initializer, temp_token_account, program_id, d, auth, fault) ==
    LET pda == FindProgramAddress(EscrowSeed \o initializer.key, program_id)
        a6 == NextAccountInfo(accounts, 6)
    IN  IF ~a6.ok THEN Outcome(a6.err, d, auth, <<>>)
        ELSE
        LET token_program == a6.val
            owner_change_ix == SetAuthority(token_program.key, temp_token_account.key,
                                            pda, initializer.key)
        IN  IF ~owner_change_ix.ok THEN Outcome(owner_change_ix.err, d, auth, <<>>)
            ELSE
            LET served == Invoke(owner_change_ix.val, temp_token_account, auth, fault)
            IN  IF ~served.ok
                    THEN Outcome(served.err, d, auth, <<owner_change_ix.val>>)
                ELSE Outcome("Ok", d, served.val, <<owner_change_ix.val>>)

\* Mutant of TransferOwnership: the result of invoke is dropped, not returned.
TransferOwnershipSwallowed(accounts, initializer, temp_token_account, program_id, d, auth, fault) ==
    LET pda == FindProgramAddress(EscrowSeed, program_id)
        a6 == NextAccountInfo(accounts, 6)
    IN  IF ~a6.ok THEN Outcome(a6.err, d, auth, <<>>)
        ELSE
        LET token_program == a6.val
            owner_change_ix == SetAuthority(token_program.key, temp_token_account.key,
                                            pda, initializer.key)
        IN  IF ~owner_change_ix.ok THEN Outcome(owner_change_ix.err, d, auth, <<>>)
            ELSE
            LET served == Invoke(owner_change_ix.val, temp_token_account, auth, fault)
            IN  Outcome("Ok", d, served.val, <<owner_change_ix.val>>)

\* The tail of process_init_escrow, from the derivation of the authority on:
\* d is the ledger data with the record already written.
TransferOwnership(accounts, initializer, temp_token_account, program_id, d, auth, fault) ==
    LET pda == FindProgramAddress(EscrowSeed, program_id)
        a6 == NextAccountInfo(accounts, 6)
    IN  IF ~a6.ok THEN Outcome(a6.err, d, auth, <<>>)
        ELSE
        LET token_program == a6.val
            owner_change_ix == SetAuthority(token_program.key, temp_token_account.key,
                                            pda, initializer.key)
        IN  IF ~owner_change_ix.ok THEN Outcome(owner_change_ix.err, d, auth, <<>>)
            ELSE
            LET served == Invoke(owner_change_ix.val, temp_token_account, auth, fault)
            IN  IF ~served.ok
                    THEN Outcome(served.err, d, auth, <<owner_change_ix.val>>)
                ELSE Outcome("Ok", d, served.val, <<owner_change_ix.val>>)

\* Mutant of WriteEscrow: the owner of the custody account is checked before
\* anything is written.
WriteEscrowCustodyChecked(accounts, initializer, temp_token_account, token_to_receive_account, escrow_account, amount, program_id, d, auth, fault) ==
    LET bytes == AccountData(d, auth, escrow_account.key)
        unpacked == UnpackUnchecked(bytes)
    IN  IF temp_token_account.owner # SplTokenId
            THEN Outcome("IncorrectProgramId", d, auth, <<>>)
        ELSE IF ~unpacked.ok THEN Outcome(unpacked.err, d, auth, <<>>)
        ELSE IF IsInitialized(unpacked.val)
            THEN Outcome("AccountAlreadyInitialized", d, auth, <<>>)
        ELSE
        LET escrow_info == Populate(unpacked.val, initializer, temp_token_account,
                                    token_to_receive_account, amount)
            packed == Pack(escrow_info, bytes)
        IN  IF ~packed.ok THEN Outcome(packed.err, d, auth, <<>>)
            ELSE TransferOwnership(accounts, initializer, temp_token_account, program_id,
                                   WriteData(d, escrow_account.key, packed.val),
                                   auth, fault)

\* The middle of process_init_escrow: the stored record is decoded, refused if
\* initialized, populated and written back.
WriteEscrow(accounts, initializer, temp_token_account, token_to_receive_account, escrow_account, amount, program_id, d, auth, fault) ==
    LET bytes == AccountData(d, auth, escrow_account.key)
        unpacked == UnpackUnchecked(bytes)
    IN  IF ~unpacked.ok THEN Outcome(unpacked.err, d, auth, <<>>)
        ELSE IF IsInitialized(unpacked.val)
            THEN Outcome("AccountAlreadyInitialized", d, auth, <<>>)
        ELSE
        LET escrow_info == Populate(unpacked.val, initializer, temp_token_account,
                                    token_to_receive_account, amount)
            packed == Pack(escrow_info, bytes)
        IN  IF ~packed.ok THEN Outcome(packed.err, d, auth, <<>>)
            ELSE TransferOwnership(accounts, initializer, temp_token_account, program_id,
                                   WriteData(d, escrow_account.key, packed.val),
                                   auth, fault)

\* Mutant of ProcessInitEscrow: the owner of the receiving account is checked
\* before the initializer's signature.
ProcessInitEscrowOwnerFirst(accounts, amount, program_id, d, auth, fault) ==
    LET a1 == NextAccountInfo(accounts, 1)
        a2 == NextAccountInfo(accounts, 2)
        a3 == NextAccountInfo(accounts, 3)
        a4 == NextAccountInfo(accounts, 4)
        a5 == NextAccountInfo(accounts, 5)
        rent == RentFromAccountInfo(a5.val)
    IN  IF ~a1.ok THEN Outcome(a1.err, d, auth, <<>>)
        ELSE IF ~a2.ok THEN Outcome(a2.err, d, auth, <<>>)
        ELSE IF ~a3.ok THEN Outcome(a3.err, d, auth, <<>>)
        ELSE IF ~OwnerCheck(a3.val) THEN Outcome("IncorrectProgramId", d, auth, <<>>)
        ELSE IF ~SignerCheck(a1.val)
            THEN Outcome("MissingRequiredSignature", d, auth, <<>>)
        ELSE IF ~a4.ok THEN Outcome(a4.err, d, auth, <<>>)
        ELSE IF ~a5.ok THEN Outcome(a5.err, d, auth, <<>>)
        ELSE IF ~rent.ok THEN Outcome(rent.err, d, auth, <<>>)
        ELSE IF ~RentCheck(rent.val, a4.val, AccountData(d, auth, a4.val.key))
            THEN Outcome("NotRentExempt", d, auth, <<>>)
        ELSE WriteEscrow(accounts, a1.val, a2.val, a3.val, a4.val,
                         amount, program_id, d, auth, fault)

\* Processor::process_init_escrow
ProcessInitEscrow(accounts, amount, program_id, d, auth, fault) ==
    LET a1 == NextAccountInfo(accounts, 1)
        a2 == NextAccountInfo(accounts, 2)
        a3 == NextAccountInfo(accounts, 3)
        a4 == NextAccountInfo(accounts, 4)
        a5 == NextAccountInfo(accounts, 5)
        rent == RentFromAccountInfo(a5.val)
    IN  IF ~a1.ok THEN Outcome(a1.err, d, auth, <<>>)
        ELSE IF ~SignerCheck(a1.val)
            THEN Outcome("MissingRequiredSignature", d, auth, <<>>)
        ELSE IF ~a2.ok THEN Outcome(a2.err, d, auth, <<>>)
        ELSE IF ~a3.ok THEN Outcome(a3.err, d, auth, <<>>)
        ELSE IF ~OwnerCheck(a3.val) THEN Outcome("IncorrectProgramId", d, auth, <<>>)
        ELSE IF ~a4.ok THEN Outcome(a4.err, d, auth, <<>>)
        ELSE IF ~a5.ok THEN Outcome(a5.err, d, auth, <<>>)
        ELSE IF ~rent.ok THEN Outcome(rent.err, d, auth, <<>>)
        ELSE IF ~RentCheck(rent.val, a4.val, AccountData(d, auth, a4.val.key))
            THEN Outcome("NotRentExempt", d, auth, <<>>)
        ELSE WriteEscrow(accounts, a1.val, a2.val, a3.val, a4.val,
                         amount, program_id, d, auth, fault)

\* EscrowInstruction::unpack: a tag byte, 0 for InitEscrow, then the amount in
\* 8 little-endian bytes.
UnpackInstruction(input) ==
    IF Len(input) = 0 THEN Err("InvalidInstruction", U64(0, 0, 0, 0))
    ELSE IF Head(input) # 0 THEN Err("InvalidInstruction", U64(0, 0, 0, 0))
    ELSE IF Len(input) < 9 THEN Err("InvalidInstruction", U64(0, 0, 0, 0))
    ELSE Ok(FromLeBytes(SubSeq(input, 2, 9)))

\* Processor::process
Process(program_id, accounts, instruction_data, d, auth, fault) ==
    LET instruction == UnpackInstruction(instruction_data)
    IN  IF ~instruction.ok THEN Outcome(instruction.err, d, auth, <<>>)
        ELSE ProcessInitEscrow(accounts, instruction.val, program_id, d, auth, fault)

-----------------------------------------------------------------------------
(* The ledger and the invocations callers make *)

\* The balances a caller funds the storage account with: one lamport short of
\* exemption for LEN bytes, exactly exempt for them, exempt for a longer account.
Balances ==
    { MinimumBalance(RentDefault, LEN) - 1,
      MinimumBalance(RentDefault, LEN),
      MinimumBalance(RentDefault, LEN + 1) }

InitializerInfos ==
    { AccountInfo(Alice, TRUE, SystemProgramId, 0),
      AccountInfo(Alice, FALSE, SystemProgramId, 0),
      AccountInfo(Bob, TRUE, SystemProgramId, 0) }

TokAInfo == AccountInfo(TokA, FALSE, SplTokenId, 0)
TokBInfo == AccountInfo(TokB, FALSE, SplTokenId, 0)

EscrowInfos == {AccountInfo(Esc1, FALSE, EscrowProgramId, b) : b \in Balances}

CustodyInfos == {TokAInfo, AccountInfo(Esc1, FALSE, EscrowProgramId, 0)}

ReceivingInfos == {TokAInfo, TokBInfo, AccountInfo(Bob, FALSE, SystemProgramId, 0)}

StorageInfos ==
    EscrowInfos \cup {AccountInfo(TokA, FALSE, SplTokenId, MinimumBalance(RentDefault, 165))}

RentInfos ==
    { AccountInfo(RentSysvarId, FALSE, SystemProgramId, 0),
      AccountInfo(Alice, FALSE, SystemProgramId, 0) }

TokenProgramInfos ==
    { AccountInfo(SplTokenId, FALSE, SystemProgramId, 0),
      AccountInfo(SystemProgramId, FALSE, SystemProgramId, 0) }

\* The full account lists callers build, position by position.
AccountLists ==
    { <<a1, a2, a3, a4, a5, a6>> :
        a1 \in InitializerInfos, a2 \in CustodyInfos, a3 \in ReceivingInfos,
        a4 \in StorageInfos, a5 \in RentInfos, a6 \in TokenProgramInfos }

\* The wire form of InitEscrow { amount }.
InitEscrowData(amount) == <<0>> \o ToLeBytes(amount)

Payloads ==
    {InitEscrowData(a) : a \in Amounts} \cup {<<>>, <<1>> \o ToLeBytes(AmountList[1])}

\* The ids the program is deployed under.
ProgramIds == {EscrowProgramId, SecondProgramId}

Faults == {"none", "AccountFrozen"}

Tx(accounts, instruction_data, program_id, fault) ==
    [accounts |-> accounts, instruction_data |-> instruction_data,
     program_id |-> program_id, fault |-> fault]

NoTx == Tx(<<>>, <<>>, EscrowProgramId, "none")

\* What the storage account may hold before the program first sees it: a fresh
\* zeroed allocation of the right or of a wrong size, bytes that are no record,
\* a record with stale fields under a cleared flag, a record initialized before.
InitialData ==
    { Zeros(LEN),
      Zeros(LEN - 1),
      Zeros(LEN + 1),
      <<2>> \o Zeros(LEN - 1),
      <<0>> \o Bob \o TokB \o TokB \o ToLeBytes(AmountList[2]),
      <<1>> \o Bob \o TokB \o TokB \o ToLeBytes(AmountList[2]) }

\* The Pack implementation on its own: a job is a record to encode into dst and
\* decode again, or an input to decode.
Codec(stage, r, dst, input, bytes, unpacked, checked) ==
    [stage |-> stage, r |-> r, dst |-> dst, input |-> input, bytes |-> bytes,
     unpacked |-> unpacked, checked |-> checked]

NoCodec == Codec("none", NoEscrow, <<>>, <<>>, <<>>, Err("", NoEscrow), Err("", NoEscrow))

Snapshot(d, auth, s) == [data |-> d, authority |-> auth, succeeded |-> s]

Init ==
    /\ pc = "idle"
    /\ data \in {[k \in {Esc1} |-> v] : v \in InitialData}
    /\ authority = [k \in {TokA, TokB} |-> IF k = TokA THEN Alice ELSE Bob]
    /\ tx = NoTx
    /\ result = ""
    /\ cpi = <<>>
    /\ succeeded = {}
    /\ prior = Snapshot(data, authority, succeeded)
    /\ writers = [k \in {Esc1} |-> {}]
    /\ requested = {}
    /\ codec = NoCodec

\* The account lists callers submit: a full list, or a list cut short.
AccountPrefixes == {SubSeq(full, 1, n) : full \in AccountLists, n \in 0..6}

\* What an invocation that writes a record is given to put into it.
Writer(accounts, instruction_data) ==
    [initializer |-> accounts[1].key,
     custody |-> accounts[2].key,
     receiving |-> accounts[3].key,
     amount |-> SubSeq(instruction_data, 2, 9)]

\* The invocation t has returned out: the ledger takes the effects out carries,
\* the history records them.
Apply(t, out) ==
    /\ pc' = "done"
    /\ tx' = t
    /\ prior' = Snapshot(data, authority, succeeded)
    /\ succeeded' = IF out.result = "Ok"
                        THEN succeeded \cup {t.accounts[4].key}
                        ELSE succeeded
    /\ writers' = [k \in DOMAIN writers |->
                      IF out.data[k] # data[k]
                          THEN writers[k] \cup
                               {Writer(t.accounts, t.instruction_data)}
                          ELSE writers[k]]
    /\ data' = out.data
    /\ authority' = out.authority
    /\ result' = out.result
    /\ cpi' = out.cpi
    /\ UNCHANGED codec

\* One invocation of the program, from entry to return.
Invocation ==
    /\ pc = "idle"
    /\ \E accounts \in AccountPrefixes, p \in Payloads, id \in ProgramIds, f \in Faults :
        Apply(Tx(accounts, p, id, f), Process(id, accounts, p, data, authority, f))
    /\ UNCHANGED requested

\* The runtime hands the result to the caller; the next invocation may begin.
Return ==
    /\ pc = "done"
    /\ pc' = "idle"
    /\ tx' = NoTx
    /\ result' = ""
    /\ cpi' = <<>>
    /\ prior' = Snapshot(data, authority, succeeded)
    /\ UNCHANGED <<data, authority, succeeded, writers, requested, codec>>

Next == Invocation \/ Return

Spec == Init /\ [][Next]_vars

-----------------------------------------------------------------------------
(* The same program inside an all-or-nothing boundary *)

\* The enclosing transaction: every effect of an invocation that does not
\* return Ok is discarded.
Committed(out, d, auth) ==
    IF out.result = "Ok" THEN out
    ELSE [out EXCEPT !.data = d, !.authority = auth]

AtomicInvocation ==
    /\ pc = "idle"
    /\ \E accounts \in AccountPrefixes, p \in Payloads, id \in ProgramIds, f \in Faults :
        Apply(Tx(accounts, p, id, f),
              Committed(Process(id, accounts, p, data, authority, f), data, authority))
    /\ UNCHANGED requested

\* The storage account has not been initialized.
AtomicInit == Init /\ \A k \in DOMAIN data : ~(Len(data[k]) = LEN /\ data[k][1] = 1)

AtomicNext == AtomicInvocation \/ Return

SpecAtomic == AtomicInit /\ [][AtomicNext]_vars

-----------------------------------------------------------------------------
(* Invocations on one storage account after another, their requests compared *)

\* The requests an invocation under program_id has sent to the token program.
Requests(program_id, requests) ==
    {<<program_id, requests[i].new_authority>> : i \in 1..Len(requests)}

\* One invocation of the program; what it asks of the token program is kept.
RequestingInvocation ==
    /\ pc = "idle"
    /\ \E accounts \in AccountPrefixes, p \in Payloads, id \in ProgramIds, f \in Faults :
        LET out == Process(id, accounts, p, data, authority, f)
        IN  /\ Apply(Tx(accounts, p, id, f), out)
            /\ requested' = requested \cup Requests(id, out.cpi)

\* The invocation returns, and the next one is handed another storage account
\* under the same key, holding any of the records the flag check lets through;
\* the token accounts stay as they are.
ReturnToOtherStorage ==
    /\ pc = "done"
    /\ pc' = "idle"
    /\ tx' = NoTx
    /\ result' = ""
    /\ cpi' = <<>>
    /\ data' \in {[k \in DOMAIN data |-> v] : v \in {w \in InitialData : Len(w) = LEN /\ w[1] = 0}}
    /\ succeeded' = {}
    /\ writers' = [k \in DOMAIN writers |-> {}]
    /\ prior' = Snapshot(data', authority, succeeded')
    /\ UNCHANGED <<authority, requested, codec>>

RequestsNext == RequestingInvocation \/ ReturnToOtherStorage

SpecRequests == Init /\ [][RequestsNext]_vars

-----------------------------------------------------------------------------
(* The Pack implementation of Escrow, exercised on its own *)

Fill(b, n) == [i \in 1..n |-> b]
Ramp(n) == [i \in 1..n |-> (7 * i) % 256]

CodecKeys == {DefaultPubkey, Alice, Fill(255, 32)}

CodecAmounts == {AmountList[i] : i \in 1..Len(AmountList)}

\* Every record over the keys and amounts above, either flag.
CodecRecords ==
    { Escrow(f, k1, k2, k3, a) :
        f \in BOOLEAN, k1 \in CodecKeys, k2 \in CodecKeys, k3 \in CodecKeys,
        a \in CodecAmounts }

\* The buffers a record is encoded into: LEN bytes, or more.
CodecDsts == {Zeros(LEN), Fill(255, LEN)} \cup {Fill(170, LEN + e) : e \in 1..MaxExcess}

\* The lengths of the inputs handed to the decoder: none, one byte, and LEN
\* give or take MaxExcess.
CodecLengths == {0, 1} \cup ((LEN - MaxExcess)..(LEN + MaxExcess))

\* The inputs handed to the decoder: a first byte, then zeros, 255s or a ramp.
CodecInputs ==
    {<<>>} \cup
    { <<f>> \o rest :
        f \in {0, 1, 2, 255},
        rest \in UNION {{Zeros(n - 1), Fill(255, n - 1), Ramp(n - 1)} :
                            n \in CodecLengths \ {0}} }

CodecInit ==
    /\ pc = "idle"
    /\ data = [k \in {Esc1} |-> Zeros(LEN)]
    /\ authority = [k \in {TokA, TokB} |-> IF k = TokA THEN Alice ELSE Bob]
    /\ tx = NoTx
    /\ result = ""
    /\ cpi = <<>>
    /\ succeeded = {}
    /\ prior = Snapshot(data, authority, succeeded)
    /\ writers = [k \in {Esc1} |-> {}]
    /\ requested = {}
    /\ \/ \E r \in CodecRecords, dst \in CodecDsts :
            codec = Codec("encode", r, dst, <<>>, <<>>, Err("", NoEscrow), Err("", NoEscrow))
       \/ \E input \in CodecInputs :
            codec = Codec("decode", NoEscrow, <<>>, input, <<>>, Err("", NoEscrow), Err("", NoEscrow))

Ledger == <<pc, data, authority, tx, result, cpi, succeeded, prior, writers, requested>>

\* r.pack_into_slice(dst)
PackStep ==
    /\ codec.stage = "encode"
    /\ codec' = [codec EXCEPT !.stage = "packed",
                              !.bytes = PackIntoSlice(codec.r, codec.dst).val]
    /\ UNCHANGED Ledger

\* Escrow::unpack_from_slice(bytes), on what pack_into_slice produced
UnpackStep ==
    /\ codec.stage = "packed"
    /\ codec' = [codec EXCEPT !.stage = "unpacked",
                              !.unpacked = UnpackFromSlice(codec.bytes)]
    /\ UNCHANGED Ledger

\* Escrow::unpack_from_slice(input) and Escrow::unpack_unchecked(input)
DecodeStep ==
    /\ codec.stage = "decode"
    /\ codec' = [codec EXCEPT !.stage = "decoded",
                              !.unpacked = UnpackFromSlice(codec.input),
                              !.checked = UnpackUnchecked(codec.input)]
    /\ UNCHANGED Ledger

CodecNext == PackStep \/ UnpackStep \/ DecodeStep

SpecCodec == CodecInit /\ [][CodecNext]_vars

-----------------------------------------------------------------------------
(* Properties.  Each is read in a state where an invocation has just returned: *)
(* tx is what it was given, prior the ledger it began with.                   *)

Returned == pc = "done"

NAccounts == Len(tx.accounts)

\* The payload is a well-formed InitEscrow, so that process_init_escrow ran.
WellFormedPayload == \E a \in Amounts : tx.instruction_data = InitEscrowData(a)

PayloadAmount == CHOOSE a \in Amounts : tx.instruction_data = InitEscrowData(a)

InitializerOf == tx.accounts[1]
CustodyOf == tx.accounts[2]
ReceivingOf == tx.accounts[3]
StorageOf == tx.accounts[4]

\* The bytes the storage account held when the invocation began, and holds now.
StoredBefore == AccountData(prior.data, prior.authority, StorageOf.key)
StoredNow == AccountData(data, authority, StorageOf.key)

DerivedAuthority == FindProgramAddress(EscrowSeed, tx.program_id)

\* The inputs of the four validations, read off the accounts themselves.
SignerPasses == InitializerOf.is_signer
OwnerPasses == ReceivingOf.owner = SplTokenId
RentSupplied == tx.accounts[5].key = RentSysvarId
RentPasses == StorageOf.lamports >= (128 + Len(StoredBefore)) * 3480 * 2
FlagSet(bytes) == Len(bytes) = LEN /\ bytes[1] = 1
FlagClear(bytes) == Len(bytes) = LEN /\ bytes[1] = 0

\* Nothing was written and nothing was asked of the token program.
NoEffect == data = prior.data /\ authority = prior.authority /\ cpi = <<>>

\* The 105 bytes of the record a successful initialization stores.
RecordBytes ==
    <<1>> \o InitializerOf.key \o CustodyOf.key \o ReceivingOf.key
          \o SubSeq(tx.instruction_data, 2, 9)

\* All four validations pass and the request to the token program is built.
ReachesInvoke ==
    /\ NAccounts = 6
    /\ SignerPasses /\ OwnerPasses /\ RentSupplied /\ RentPasses
    /\ FlagClear(StoredBefore)
    /\ tx.accounts[6].key = SplTokenId

\* What the token program answers to the request, "none" when it serves it.
InvokeAnswer ==
    IF CustodyOf.owner # SplTokenId \/ CustodyOf.key \notin DOMAIN prior.authority
        THEN "InvalidAccountData"
    ELSE IF tx.fault # "none" THEN tx.fault
    ELSE IF prior.authority[CustodyOf.key] # InitializerOf.key THEN "OwnerMismatch"
    ELSE "none"

\* C1: an invocation on a storage account on which an earlier invocation
\* succeeded, with six accounts, a signing initializer, a receiving account
\* owned by the token program and a rent-exempt storage account, returns
\* AccountAlreadyInitialized, writes nothing and asks nothing of the token program.
C1_NoDoubleInit ==
    (/\ Returned /\ WellFormedPayload /\ NAccounts = 6
     /\ SignerPasses /\ OwnerPasses /\ RentSupplied /\ RentPasses
     /\ StorageOf.key \in prior.succeeded)
        => (result = "AccountAlreadyInitialized" /\ NoEffect)

C1_Witness ==
    /\ Returned /\ WellFormedPayload /\ NAccounts = 6
    /\ SignerPasses /\ OwnerPasses /\ RentSupplied /\ RentPasses
    /\ StorageOf.key \in prior.succeeded
    /\ tx.accounts[6].key = SplTokenId
    /\ result = "AccountAlreadyInitialized"

\* C2: a stored record whose flag is set is left as it is, byte for byte, by
\* every invocation, whatever its accounts, signer flags, balances and payload.
C2_InitializedRecordFrozen ==
    Returned => \A k \in DOMAIN prior.data :
                    FlagSet(prior.data[k]) => data[k] = prior.data[k]

\* A record this program wrote meets an invocation that passes the first three
\* validations and names another initializer and another amount.
C2_Witness ==
    /\ Returned /\ WellFormedPayload /\ NAccounts = 6
    /\ SignerPasses /\ OwnerPasses /\ RentSupplied /\ RentPasses
    /\ StorageOf.key \in prior.succeeded
    /\ FlagSet(StoredBefore)
    /\ SubSeq(StoredBefore, 2, 33) # InitializerOf.key
    /\ SubSeq(StoredBefore, 98, 105) # SubSeq(tx.instruction_data, 2, 9)
    /\ StoredNow = StoredBefore

\* C3: an invocation whose four validations pass and whose request the token
\* program serves returns Ok, and an invocation that returns Ok leaves a storage
\* account that decodes to the record (true, initializer key, custody key,
\* receiving key, amount of the payload), and has issued exactly one request: set
\* the AccountOwner authority of the custody account, from the initializer, to
\* the authority derived from "escrow" and the program id.
C3_SuccessPostcondition ==
    (/\ Returned
     /\ \/ result = "Ok"
        \/ (WellFormedPayload /\ ReachesInvoke /\ InvokeAnswer = "none")) =>
        /\ result = "Ok"
        /\ UnpackUnchecked(StoredNow) =
              Ok(Escrow(TRUE, InitializerOf.key, CustodyOf.key, ReceivingOf.key,
                        PayloadAmount))
        /\ StoredNow = RecordBytes
        /\ Len(cpi) = 1
        /\ cpi[1].account = CustodyOf.key
        /\ cpi[1].owner = InitializerOf.key
        /\ cpi[1].new_authority = DerivedAuthority
        /\ cpi[1].authority_type = "AccountOwner"
        /\ cpi[1].program_id = SplTokenId

C3_Witness ==
    /\ Returned /\ result = "Ok"
    /\ SignerPasses /\ OwnerPasses /\ RentSupplied /\ RentPasses
    /\ StoredBefore = Zeros(LEN)
    /\ PayloadAmount = U64(0, 0, 15, 16960)
    /\ CustodyOf.key # ReceivingOf.key
    /\ authority[CustodyOf.key] = DerivedAuthority

\* How many of the four validations the invocation's inputs fail.
FailureCount ==
    (IF SignerPasses THEN 0 ELSE 1) + (IF OwnerPasses THEN 0 ELSE 1)
    + (IF RentPasses THEN 0 ELSE 1) + (IF FlagSet(StoredBefore) THEN 1 ELSE 0)

\* The error of the earliest failing validation, in the order signer, owner,
\* rent, not-already-initialized.
EarliestFailure ==
    IF ~SignerPasses THEN "MissingRequiredSignature"
    ELSE IF ~OwnerPasses THEN "IncorrectProgramId"
    ELSE IF ~RentPasses THEN "NotRentExempt"
    ELSE "AccountAlreadyInitialized"

\* C4: with six accounts and the rent sysvar among them, an invocation whose
\* inputs fail several of the four validations returns the error of the earliest
\* one in the order signer, owner, rent, not-already-initialized, writes nothing
\* and asks nothing of the token program.
C4_ValidationOrder ==
    (/\ Returned /\ WellFormedPayload /\ NAccounts = 6 /\ RentSupplied
     /\ FailureCount >= 2)
        => (result = EarliestFailure /\ NoEffect)

C4_Witness ==
    /\ Returned /\ WellFormedPayload /\ NAccounts = 6 /\ RentSupplied
    /\ SignerPasses /\ ~OwnerPasses /\ ~RentPasses /\ FlagSet(StoredBefore)
    /\ result = "IncorrectProgramId"

\* C5: an invocation whose first account is not a signer returns
\* MissingRequiredSignature, whatever the other accounts and however many,
\* writes nothing and asks nothing of the token program.
C5_SignerEnforced ==
    (Returned /\ WellFormedPayload /\ NAccounts >= 1 /\ ~SignerPasses)
        => (result = "MissingRequiredSignature" /\ NoEffect)

C5_Witness ==
    /\ Returned /\ WellFormedPayload /\ NAccounts = 6 /\ ~SignerPasses
    /\ OwnerPasses /\ RentSupplied /\ RentPasses /\ StoredBefore = Zeros(LEN)
    /\ tx.accounts[6].key = SplTokenId
    /\ CustodyOf.key \in DOMAIN authority
    /\ prior.authority[CustodyOf.key] = InitializerOf.key
    /\ result = "MissingRequiredSignature"

\* C6: an invocation with a signing initializer whose third account is not owned
\* by the token program returns IncorrectProgramId, writes nothing and asks
\* nothing of the token program.
C6_OwnerEnforced ==
    (Returned /\ WellFormedPayload /\ NAccounts >= 3 /\ SignerPasses /\ ~OwnerPasses)
        => (result = "IncorrectProgramId" /\ NoEffect)

C6_Witness ==
    /\ Returned /\ WellFormedPayload /\ NAccounts = 6 /\ SignerPasses /\ ~OwnerPasses
    /\ RentSupplied /\ RentPasses /\ StoredBefore = Zeros(LEN)
    /\ tx.accounts[6].key = SplTokenId
    /\ CustodyOf.key \in DOMAIN authority
    /\ prior.authority[CustodyOf.key] = InitializerOf.key
    /\ result = "IncorrectProgramId"

\* C7: an invocation that passes the signer and the owner check, is given the
\* rent sysvar, and whose storage account's balance is below the exemption
\* threshold for its data size returns NotRentExempt, writes nothing and asks
\* nothing of the token program.
C7_RentGate ==
    (/\ Returned /\ WellFormedPayload /\ NAccounts >= 5
     /\ SignerPasses /\ OwnerPasses /\ RentSupplied /\ ~RentPasses)
        => (result = "NotRentExempt" /\ NoEffect)

\* The balance is exempt for LEN bytes and the account is a byte longer.
C7_Witness ==
    /\ Returned /\ WellFormedPayload /\ NAccounts = 6
    /\ SignerPasses /\ OwnerPasses /\ RentSupplied /\ ~RentPasses
    /\ Len(StoredBefore) = LEN + 1
    /\ StorageOf.lamports = (128 + LEN) * 3480 * 2
    /\ result = "NotRentExempt"

\* C8: when the four validations pass and the token program refuses the request,
\* the invocation returns the token program's error; the request was issued
\* once, the storage account holds the populated record, flag set, and every
\* token account keeps the authority it had (the custody account its
\* initializer, when that was its authority).
C8_ExternalFailureKeepsRecord ==
    (Returned /\ WellFormedPayload /\ ReachesInvoke /\ InvokeAnswer # "none")
        => /\ result = InvokeAnswer
           /\ Len(cpi) = 1
           /\ StoredNow = RecordBytes
           /\ FlagSet(StoredNow)
           /\ authority = prior.authority

C8_Witness ==
    /\ Returned /\ WellFormedPayload /\ ReachesInvoke
    /\ CustodyOf.key \in DOMAIN prior.authority
    /\ CustodyOf.owner = SplTokenId
    /\ prior.authority[CustodyOf.key] = InitializerOf.key
    /\ tx.fault = "AccountFrozen"
    /\ result = "AccountFrozen"
    /\ StoredNow # StoredBefore
    /\ FlagSet(StoredNow)
    /\ authority[CustodyOf.key] = InitializerOf.key

\* The supplied accounts pass every validation that can be evaluated on them.
SuppliedAccountsPass ==
    /\ NAccounts >= 1 => SignerPasses
    /\ NAccounts >= 3 => OwnerPasses
    /\ NAccounts >= 5 => (RentSupplied /\ RentPasses /\ FlagClear(StoredBefore))

\* C9: an invocation given 0 to 5 accounts that pass every validation that can
\* be evaluated on them returns NotEnoughAccountKeys, writes nothing and asks
\* nothing of the token program.
C9_TooFewAccounts ==
    (Returned /\ WellFormedPayload /\ NAccounts <= 5 /\ SuppliedAccountsPass)
        => (result = "NotEnoughAccountKeys" /\ NoEffect)

\* With at most four accounts the statement of C9 does hold; with five, the
\* error is the same and the record has been written.
C9_UpToFourAccounts ==
    (Returned /\ WellFormedPayload /\ NAccounts <= 4 /\ SuppliedAccountsPass)
        => (result = "NotEnoughAccountKeys" /\ NoEffect)

C9_FiveAccountsWrite ==
    (Returned /\ WellFormedPayload /\ NAccounts = 5 /\ SuppliedAccountsPass)
        => (result = "NotEnoughAccountKeys" /\ StoredNow = RecordBytes /\ cpi = <<>>)

\* The stored bytes are no Escrow record.
Malformed(bytes) == Len(bytes) # LEN \/ bytes[1] \notin {0, 1}

\* C10: an invocation that passes the signer, owner and rent checks on a storage
\* account whose bytes are no Escrow record (length other than 105, or a first
\* byte other than 0 and 1) returns InvalidAccountData, writes nothing and asks
\* nothing of the token program.
C10_MalformedRecord ==
    (/\ Returned /\ WellFormedPayload /\ NAccounts >= 5
     /\ SignerPasses /\ OwnerPasses /\ RentSupplied /\ RentPasses
     /\ Malformed(StoredBefore))
        => (result = "InvalidAccountData" /\ NoEffect)

C10_Witness ==
    /\ Returned /\ WellFormedPayload /\ NAccounts = 6
    /\ SignerPasses /\ OwnerPasses /\ RentSupplied /\ RentPasses
    /\ Len(StoredBefore) = LEN - 1
    /\ tx.accounts[6].key = SplTokenId
    /\ result = "InvalidAccountData"

-----------------------------------------------------------------------------
(* Properties of the Pack implementation, under SpecCodec *)

\* C11: unpack_from_slice of what pack_into_slice(r) wrote is r, field by field,
\* for either flag, any identities and any amount; the bytes written are the
\* flag (1 byte, 0 or 1), the initializer (32), the custody account (32), the
\* receiving account (32) and the amount (8, least significant byte first), and
\* the bytes of dst past the 105th are left as they were.
C11_RoundTrip ==
    codec.stage = "unpacked" =>
        LET r == codec.r
            b == codec.bytes
            a == r.expected_amount
        IN  /\ codec.unpacked = Ok(r)
            /\ Len(b) = Len(codec.dst)
            /\ b[1] = (IF r.is_initialized THEN 1 ELSE 0)
            /\ SubSeq(b, 2, 33) = r.initializer_pubkey
            /\ SubSeq(b, 34, 65) = r.temp_token_account_pubkey
            /\ SubSeq(b, 66, 97) = r.initializer_token_to_receive_account_pubkey
            /\ SubSeq(b, 98, 105) =
                  << a[4] % 256, a[4] \div 256, a[3] % 256, a[3] \div 256,
                     a[2] % 256, a[2] \div 256, a[1] % 256, a[1] \div 256 >>
            /\ SubSeq(b, LEN + 1, Len(b)) = SubSeq(codec.dst, LEN + 1, Len(codec.dst))

\* An initialized record of three different keys and the amount
\* 0x0102030405060708 has gone through both directions.
C11_Witness ==
    /\ codec.stage = "unpacked"
    /\ codec.r = Escrow(TRUE, Alice, Fill(255, 32), DefaultPubkey, U64(258, 772, 1286, 1800))
    /\ SubSeq(codec.bytes, 98, 105) = <<8, 7, 6, 5, 4, 3, 2, 1>>
    /\ codec.unpacked.ok
    /\ codec.unpacked.val = codec.r

\* C12: unpack_from_slice of a 105-byte buffer succeeds exactly when the first
\* byte is 0 or 1; with any other first byte it fails with InvalidAccountData;
\* the other 104 bytes never make it fail, and come back as the fields.
C12_DecodeDomain ==
    (codec.stage = "decoded" /\ Len(codec.input) = LEN) =>
        /\ codec.unpacked.ok <=> codec.input[1] \in {0, 1}
        /\ ~codec.unpacked.ok => codec.unpacked.err = "InvalidAccountData"
        /\ codec.unpacked.ok =>
              /\ codec.unpacked.val.is_initialized = (codec.input[1] = 1)
              /\ codec.unpacked.val.initializer_pubkey = SubSeq(codec.input, 2, 33)
              /\ codec.unpacked.val.temp_token_account_pubkey = SubSeq(codec.input, 34, 65)
              /\ codec.unpacked.val.initializer_token_to_receive_account_pubkey
                    = SubSeq(codec.input, 66, 97)

\* A first byte of 2 is refused though every other byte is a plain zero.
C12_Witness ==
    /\ codec.stage = "decoded"
    /\ codec.input = <<2>> \o Zeros(LEN - 1)
    /\ ~codec.unpacked.ok
    /\ codec.unpacked.err = "InvalidAccountData"

\* C13, as claimed: decoding an input whose length is not 105, shorter or
\* longer, fails and returns no record.
C13_RejectsMalformedSize ==
    (codec.stage = "decoded" /\ Len(codec.input) # LEN) => ~codec.unpacked.ok

\* C13, amended: for an input whose length is not 105, Pack::unpack_unchecked
\* (the decoder the processor calls) fails with InvalidAccountData;
\* Escrow::unpack_from_slice itself panics on a shorter input and decodes the
\* first 105 bytes of a longer one, failing only on their first byte.
C13_SizeCheckedByUnpackUnchecked ==
    (codec.stage = "decoded" /\ Len(codec.input) # LEN) =>
        /\ codec.checked = Err("InvalidAccountData", NoEscrow)
        /\ Len(codec.input) < LEN => codec.unpacked = Err("Panic", NoEscrow)
        /\ Len(codec.input) > LEN =>
              /\ codec.unpacked.ok <=> codec.input[1] \in {0, 1}
              /\ codec.unpacked.ok =>
                    codec.unpacked.val.initializer_pubkey = SubSeq(codec.input, 2, 33)

C13_Witness ==
    /\ codec.stage = "decoded"
    /\ Len(codec.input) = LEN + 1
    /\ codec.input[1] = 1
    /\ codec.unpacked.ok
    /\ ~codec.checked.ok
    /\ codec.checked.err = "InvalidAccountData"

\* The record a writer's values make: the set flag and the four fields.
WrittenRecord(w) == <<1>> \o w.initializer \o w.custody \o w.receiving \o w.amount

\* C14: between invocations, a storage account that started with a record the
\* processor accepts as uninitialized holds either the all-zero record, or a
\* record with the flag set whose four fields were stored by one successful
\* initialization.
C14_AllOrNothing ==
    pc = "idle" =>
        \A k \in DOMAIN data :
            (writers[k] # {} \/ FlagClear(data[k])) =>
                \/ data[k] = Zeros(LEN)
                \/ /\ FlagSet(data[k])
                   /\ k \in succeeded
                   /\ \E w \in writers[k] : data[k] = WrittenRecord(w)

\* What does hold: a storage account holds either what it held before the
\* program saw it, or the whole record (set flag and four fields) of exactly
\* one invocation, successful or not; a successful one has written its record.
C14_WholeRecordOfOneInvocation ==
    \A k \in DOMAIN data :
        /\ \/ writers[k] = {} /\ data[k] \in InitialData
           \/ \E w \in writers[k] : writers[k] = {w} /\ data[k] = WrittenRecord(w)
        /\ k \in succeeded => writers[k] # {}

C14_Witness ==
    /\ pc = "idle"
    /\ writers[Esc1] # {}
    /\ Esc1 \notin succeeded
    /\ FlagSet(data[Esc1])
    /\ authority[TokA] = Alice

\* C15: in every record the processor has written, the custody account key and
\* the receiving account key differ from each other and from the key of the
\* storage account holding the record.
C15_IdentityDistinct ==
    \A k \in DOMAIN data :
        \A w \in writers[k] :
            (data[k] = WrittenRecord(w)) =>
                /\ w.custody # w.receiving
                /\ w.custody # k
                /\ w.receiving # k

\* The keys go into the record as supplied: an initialization naming one token
\* account as custody and as receiving account succeeds.
C15_SameAccountTwice ==
    /\ Returned /\ result = "Ok"
    /\ CustodyOf.key = ReceivingOf.key
    /\ StoredNow = RecordBytes

\* C16: every request sent to the token program names as new authority the
\* address derived from the seed "escrow" and the program id, so any two
\* requests made under one program id name the same new authority, whoever
\* the initializer, whatever the accounts, the amount and the storage content.
C16_AuthorityDeterminism ==
    /\ \A p \in requested, q \in requested : p[1] = q[1] => p[2] = q[2]
    /\ \A p \in requested : p[2] = FindProgramAddress(EscrowSeed, p[1])
    /\ (Returned /\ cpi # <<>>) => <<tx.program_id, DerivedAuthority>> \in requested

\* A request made for Bob on a storage account with stale fields, after an
\* initialization by Alice under the same program id has succeeded on another.
C16_Witness ==
    /\ Returned /\ cpi # <<>>
    /\ InitializerOf.key = Bob
    /\ prior.authority[TokA] = DerivedAuthority
    /\ StoredBefore = <<0>> \o Bob \o TokB \o TokB \o ToLeBytes(AmountList[2])
    /\ Cardinality(requested) = 2

\* The fields of a stored record, by their offsets.
StoredInitializer(bytes) == SubSeq(bytes, 2, 33)
StoredCustody(bytes) == SubSeq(bytes, 34, 65)

DerivedAuthorities == {FindProgramAddress(EscrowSeed, id) : id \in ProgramIds}

\* C17: when the effects of every failed invocation are discarded and no
\* storage account starts initialized, every storage account whose record has
\* the flag set names a custody account whose authority is the derived
\* authority and not the initializer any more; a successful invocation leaves
\* the custody account under the authority derived from its own program id.
C17_CustodyConsistency ==
    /\ \A k \in DOMAIN data :
            FlagSet(data[k]) =>
                /\ StoredCustody(data[k]) \in DOMAIN authority
                /\ authority[StoredCustody(data[k])] \in DerivedAuthorities
                /\ authority[StoredCustody(data[k])] # StoredInitializer(data[k])
    /\ (Returned /\ result = "Ok") =>
            /\ FlagSet(StoredNow)
            /\ authority[CustodyOf.key] = DerivedAuthority

C17_Witness ==
    /\ Returned /\ result = "Ok"
    /\ FlagClear(StoredBefore) /\ StoredBefore # Zeros(LEN)
    /\ FlagSet(StoredNow)
    /\ StoredCustody(StoredNow) = TokA
    /\ prior.authority[TokA] = Alice
    /\ authority[TokA] = DerivedAuthority

\* The custody account is no token account, or the initializer is not its
\* current authority.
CustodyUnfit ==
    \/ CustodyOf.owner # SplTokenId
    \/ CustodyOf.key \notin DOMAIN prior.authority
    \/ prior.authority[CustodyOf.key] # InitializerOf.key

\* C18: an invocation whose custody account is not owned by the token program,
\* or has another authority than the initializer, does not return Ok; when all
\* the processor's own validations pass, it is the token program that refuses,
\* asked once, with the record already written.
C18_CustodyOwnership ==
    /\ (Returned /\ WellFormedPayload /\ NAccounts >= 2 /\ CustodyUnfit)
            => result # "Ok"
    /\ (Returned /\ WellFormedPayload /\ ReachesInvoke /\ CustodyUnfit)
            => /\ Len(cpi) = 1
               /\ cpi[1].account = CustodyOf.key
               /\ cpi[1].owner = InitializerOf.key
               /\ StoredNow = RecordBytes
               /\ authority = prior.authority
               /\ result = InvokeAnswer
               /\ result \in {"InvalidAccountData", "OwnerMismatch", "AccountFrozen"}

C18_Witness ==
    /\ Returned /\ WellFormedPayload /\ ReachesInvoke
    /\ CustodyOf.key = Esc1
    /\ CustodyOf.owner # SplTokenId
    /\ StoredBefore = Zeros(LEN)
    /\ StoredNow = RecordBytes
    /\ result = "InvalidAccountData"

\* The other way of being unfit: a token account under another authority.
C18_OtherAuthority ==
    /\ Returned /\ WellFormedPayload /\ ReachesInvoke
    /\ CustodyOf.key = TokA
    /\ InitializerOf.key = Bob
    /\ prior.authority[TokA] = Alice
    /\ tx.fault = "none"
    /\ StoredNow = RecordBytes
    /\ result = "OwnerMismatch"

=============================================================================
